---- MODULE Spec2Model ----
(***************************************************************************)
(* NBA regular-season trip planner: game-graph construction               *)
(* (utils/graph_builder.py) and the anchored trip search                  *)
(* (nba_trip_planner.py).                                                  *)
(*                                                                         *)
(* Dates are day numbers; a timedelta of one day is a difference of 1.     *)
(* A GameNode is a record [team, date, opponent, venue, city_group].       *)
(* A graph is [nodes, edges]: nodes in insertion order, edges a sequence   *)
(* of [from, to, direction] in insertion order holding at most one entry   *)
(* per ordered node pair, as a networkx DiGraph does.                      *)
(***************************************************************************)
EXTENDS Integers, Sequences, FiniteSets, TLC

VARIABLES pc, cleaned_df, graph, anchor_i, all_trips, ranked_trips,
          from_node, to_node, rule_north, rule_south,
          northbound_trips, southbound_trips, output,
          other_trips, ranked_other, score_trip, score, procs

vars == <<pc, cleaned_df, graph, anchor_i, all_trips, ranked_trips,
          from_node, to_node, rule_north, rule_south,
          northbound_trips, southbound_trips, output,
          other_trips, ranked_other, score_trip, score, procs>>

(***************************************************************************)
(* Bounds of the model.                                                    *)
(***************************************************************************)
\* nights of a one-game-per-night window
MaxNights == 5

\* rows and days of a free-form frame
MaxGames == 3

MaxDay == 3

\* nights of a window that has a second game on one of its nights
MaxDoubleNights == 3

\* trips in a list handed to the ranker on its own
MaxTrips == 3

\* trips in one length bucket handed to the report on its own
MaxBucket == 2

\* nights of the windows searched step by step, one search call at a time
MaxDfsNights == 4

\* nights of the windows searched by interleaved search calls
MaxParNights == 3

(***************************************************************************)
(* Program constants and tables.                                           *)
(***************************************************************************)
target_teams == <<"Wizards", "76ers", "Knicks", "Nets", "Celtics">>

Teams == {target_teams[i] : i \in 1..Len(target_teams)}

\* mutant: the Knicks row also lists the Nets
NORTHBOUND_knicks_nets ==
  [t \in {"Wizards", "76ers", "Knicks", "Nets"} |->
     CASE t = "Wizards" -> {"76ers", "Knicks", "Nets", "Celtics"}
       [] t = "76ers"   -> {"Knicks", "Nets", "Celtics"}
       [] t = "Knicks"  -> {"Nets", "Celtics"}
       [] t = "Nets"    -> {"Celtics"}]

NORTHBOUND ==
  [t \in {"Wizards", "76ers", "Knicks", "Nets"} |->
     CASE t = "Wizards" -> {"76ers", "Knicks", "Nets", "Celtics"}
       [] t = "76ers"   -> {"Knicks", "Nets", "Celtics"}
       [] t = "Knicks"  -> {"Celtics"}
       [] t = "Nets"    -> {"Celtics"}]

\* mutant: Philadelphia counts as south of Washington
SOUTHBOUND_from_wizards ==
  [t \in {"Celtics", "Knicks", "Nets", "76ers", "Wizards"} |->
     CASE t = "Celtics" -> {"Knicks", "Nets", "76ers", "Wizards"}
       [] t = "Knicks"  -> {"76ers", "Wizards"}
       [] t = "Nets"    -> {"76ers", "Wizards"}
       [] t = "76ers"   -> {"Wizards"}
       [] t = "Wizards" -> {"76ers"}]

SOUTHBOUND ==
  [t \in {"Celtics", "Knicks", "Nets", "76ers"} |->
     CASE t = "Celtics" -> {"Knicks", "Nets", "76ers", "Wizards"}
       [] t = "Knicks"  -> {"76ers", "Wizards"}
       [] t = "Nets"    -> {"76ers", "Wizards"}
       [] t = "76ers"   -> {"Wizards"}]

geo_order ==
  [t \in Teams |->
     CASE t = "Wizards" -> 1
       [] t = "76ers"   -> 2
       [] t = "Knicks"  -> 3
       [] t = "Nets"    -> 3
       [] t = "Celtics" -> 4]

\* add_geographic_info: the city_group column of a cleaned row
city_group_of(team) == IF team \in {"Knicks", "Nets"} THEN "NYC" ELSE team

\* the arena of a home team (one arena per team in the schedule data)
arena_of(team) ==
  CASE team = "Wizards" -> "Capital One Arena"
    [] team = "76ers"   -> "Wells Fargo Center"
    [] team = "Knicks"  -> "Madison Square Garden (IV)"
    [] team = "Nets"    -> "Barclays Center"
    [] team = "Celtics" -> "TD Garden"

(***************************************************************************)
(* GameNode                                                                *)
(***************************************************************************)
GameNode(team, date, opponent, venue, city_group) ==
  [team |-> team, date |-> date, opponent |-> opponent, venue |-> venue,
   city_group |-> city_group]

\* GameNode.__eq__ / __hash__: city_group takes no part in identity
NodeEq(a, b) ==
  <<a.team, a.date, a.opponent, a.venue>> = <<b.team, b.date, b.opponent, b.venue>>

(***************************************************************************)
(* Transition rule                                                         *)
(***************************************************************************)
\* mutant: any later night counts as the next night
is_consecutive_night_later(date1, date2) == (date2 - date1) >= 1

\* mutant: the same night and the night before count too
is_consecutive_night_near(date1, date2) == (date2 - date1) <= 1 /\ (date1 - date2) <= 1

is_consecutive_night(date1, date2) == (date2 - date1) = 1

\* mutant: the New York exception is missing from the southbound branch
is_valid_geographic_transition_north_nyc(from, to, direction) ==
  LET from_team == from.team
      to_team == to.team
      nyc == from.city_group = "NYC" /\ to.city_group = "NYC" /\ from_team # to_team
  IN  IF direction = "northbound"
        THEN IF nyc THEN TRUE
             ELSE to_team \in (IF from_team \in DOMAIN NORTHBOUND
                                 THEN NORTHBOUND[from_team] ELSE {})
      ELSE IF direction = "southbound"
        THEN to_team \in (IF from_team \in DOMAIN SOUTHBOUND
                            THEN SOUTHBOUND[from_team] ELSE {})
      ELSE FALSE

is_valid_geographic_transition(from, to, direction) ==
  LET from_team == from.team
      to_team == to.team
      nyc == from.city_group = "NYC" /\ to.city_group = "NYC" /\ from_team # to_team
  IN  IF direction = "northbound"
        THEN IF nyc THEN TRUE
             ELSE to_team \in (IF from_team \in DOMAIN NORTHBOUND
                                 THEN NORTHBOUND[from_team] ELSE {})
      ELSE IF direction = "southbound"
        THEN IF nyc THEN TRUE
             ELSE to_team \in (IF from_team \in DOMAIN SOUTHBOUND
                                 THEN SOUTHBOUND[from_team] ELSE {})
      ELSE FALSE

(***************************************************************************)
(* Graph (networkx.DiGraph as used by the builder)                         *)
(***************************************************************************)
EmptyGraph == [nodes |-> <<>>, edges |-> <<>>]

\* G.add_node(node): a node equal to one already present is not added again
add_node(G, node) ==
  IF \E i \in 1..Len(G.nodes) : NodeEq(G.nodes[i], node)
    THEN G
    ELSE [G EXCEPT !.nodes = Append(@, node)]

\* mutant: every call adds an edge of its own
add_edge_parallel(G, u, v, d) ==
  [G EXCEPT !.edges = Append(@, [from |-> u, to |-> v, direction |-> d])]

\* graph.add_edge(u, v, direction=d): one edge per ordered pair; adding the
\* pair again updates the attribute of the existing edge in place
add_edge(G, u, v, d) ==
  IF \E k \in 1..Len(G.edges) : NodeEq(G.edges[k].from, u) /\ NodeEq(G.edges[k].to, v)
    THEN [G EXCEPT !.edges =
            [k \in 1..Len(@) |->
               IF NodeEq(@[k].from, u) /\ NodeEq(@[k].to, v)
                 THEN [@[k] EXCEPT !.direction = d]
                 ELSE @[k]]]
    ELSE [G EXCEPT !.edges = Append(@, [from |-> u, to |-> v, direction |-> d])]

\* body of the inner loop of add_edges_to_graph for one (from_node, to_node)
add_edges_pair(G, a, b) ==
  IF NodeEq(a, b) THEN G
  ELSE IF ~is_consecutive_night(a.date, b.date) THEN G
  ELSE IF a.team = b.team THEN G
  ELSE LET G1 == IF is_valid_geographic_transition(a, b, "northbound")
                   THEN add_edge(G, a, b, "northbound") ELSE G
       IN  IF is_valid_geographic_transition(a, b, "southbound")
             THEN add_edge(G1, a, b, "southbound") ELSE G1

RECURSIVE add_edges_from(_, _, _)
\* the two nested loops, pair number k of Len(nodes)^2 onwards; a graph
\* without nodes comes from an empty node list, over which the loops do nothing
\* (reading G here also has the graph computed pair by pair)
add_edges_from(G, nodes, k) ==
  LET n == Len(nodes)
  IN  IF k > n * n \/ G.nodes = <<>> THEN G
      ELSE add_edges_from(
             add_edges_pair(G, nodes[((k - 1) \div n) + 1], nodes[((k - 1) % n) + 1]),
             nodes, k + 1)

add_edges_to_graph(G, nodes) == add_edges_from(G, nodes, 1)

RECURSIVE add_nodes_from(_, _, _)
add_nodes_from(G, rows, k) ==
  IF k > Len(rows) THEN G
  ELSE add_nodes_from(add_node(G, rows[k]), rows, k + 1)

\* every row becomes a GameNode (rows already carry the five fields)
build_game_graph(df) ==
  add_edges_to_graph(add_nodes_from(EmptyGraph, df, 1), df)

(***************************************************************************)
(* Trip search                                                             *)
(***************************************************************************)
\* graph.successors(node): targets of the out-edges, in insertion order
successors(G, node) ==
  LET out == SelectSeq(G.edges, LAMBDA e : NodeEq(e.from, node))
  IN  [k \in 1..Len(out) |-> out[k].to]

\* graph.edges[u, v].get('direction')
edge_direction(G, u, v) ==
  LET e == CHOOSE e \in {G.edges[k] : k \in 1..Len(G.edges)} :
             NodeEq(e.from, u) /\ NodeEq(e.to, v)
  IN  e.direction

\* mutant: paths of two games are recorded too
north_records_short(current_path, current_teams) ==
  2 <= Len(current_path) /\ Len(current_path) <= 5 /\ "Wizards" \in current_teams

\* the record condition of dfs_northbound
north_records(current_path, current_teams) ==
  3 <= Len(current_path) /\ Len(current_path) <= 5 /\ "Wizards" \in current_teams

\* mutant: the backward search records wherever the path ends
south_records_anywhere(current_node, current_path) ==
  3 <= Len(current_path) /\ Len(current_path) <= 5

\* mutant: a path ending in Philadelphia is recorded too
south_records_or_76ers(current_node, current_path) ==
  current_node.team \in {"Wizards", "76ers"} /\ 3 <= Len(current_path) /\ Len(current_path) <= 5

\* the record condition of dfs_southbound
south_records(current_node, current_path) ==
  current_node.team = "Wizards" /\ 3 <= Len(current_path) /\ Len(current_path) <= 5

\* mutant: the search stops extending at three games
under_max_length_three(current_path) == Len(current_path) < 3

\* "continue DFS if under max length"
under_max_length(current_path) == Len(current_path) < 5

\* mutant: a team may be visited again
follows_any_team(G, current_node, neighbor, current_teams, direction) ==
  edge_direction(G, current_node, neighbor) = direction

\* mutant: the edge label is not looked at
follows_any_direction(G, current_node, neighbor, current_teams, direction) ==
  neighbor.team \notin current_teams

\* mutant: only the team of the current game is excluded
follows_other_team(G, current_node, neighbor, current_teams, direction) ==
  /\ edge_direction(G, current_node, neighbor) = direction
  /\ neighbor.team # current_node.team

\* the neighbour filter of both searches
follows(G, current_node, neighbor, current_teams, direction) ==
  /\ edge_direction(G, current_node, neighbor) = direction
  /\ neighbor.team \notin current_teams

RECURSIVE dfs_northbound(_, _, _, _)
\* the trips appended by dfs_northbound(current_node, visited_teams, path)
\* and by the calls below it, in the order they are appended
dfs_northbound(G, current_node, visited_teams, path) ==
  LET current_path == Append(path, current_node)
      current_teams == visited_teams \cup {current_node.team}
      succ == successors(G, current_node)
      RECURSIVE loop(_)
      loop(k) ==
        IF k > Len(succ) THEN <<>>
        ELSE (IF follows(G, current_node, succ[k], current_teams, "northbound")
                THEN dfs_northbound(G, succ[k], current_teams, current_path)
                ELSE <<>>) \o loop(k + 1)
  IN  (IF north_records(current_path, current_teams) THEN <<current_path>> ELSE <<>>)
      \o (IF under_max_length(current_path) THEN loop(1) ELSE <<>>)

find_northbound_trips(G, wizards_game) == dfs_northbound(G, wizards_game, {}, <<>>)

RECURSIVE dfs_southbound(_, _, _, _)
dfs_southbound(G, current_node, visited_teams, path) ==
  LET current_path == Append(path, current_node)
      current_teams == visited_teams \cup {current_node.team}
      succ == successors(G, current_node)
      RECURSIVE loop(_)
      loop(k) ==
        IF k > Len(succ) THEN <<>>
        ELSE (IF follows(G, current_node, succ[k], current_teams, "southbound")
                THEN dfs_southbound(G, succ[k], current_teams, current_path)
                ELSE <<>>) \o loop(k + 1)
  IN  (IF south_records(current_node, current_path) THEN <<current_path>> ELSE <<>>)
      \o (IF under_max_length(current_path) THEN loop(1) ELSE <<>>)

\* mutant: only the trips ending at the given anchor are returned
find_southbound_trips_to_anchor(G, wizards_game) ==
  LET RECURSIVE starts(_)
      starts(k) ==
        IF k > Len(G.nodes) THEN <<>>
        ELSE (IF G.nodes[k].team # "Wizards"
                THEN dfs_southbound(G, G.nodes[k], {}, <<>>)
                ELSE <<>>) \o starts(k + 1)
  IN  SelectSeq(starts(1), LAMBDA trip : trip[Len(trip)] = wizards_game)

\* the wizards_game argument is not used by the search
find_southbound_trips(G, wizards_game) ==
  LET RECURSIVE starts(_)
      starts(k) ==
        IF k > Len(G.nodes) THEN <<>>
        ELSE (IF G.nodes[k].team # "Wizards"
                THEN dfs_southbound(G, G.nodes[k], {}, <<>>)
                ELSE <<>>) \o starts(k + 1)
  IN  starts(1)

\* mutant: every game is an anchor
wizards_games_any(G) == G.nodes

\* [node for node in graph.nodes() if node.team == "Wizards"]
wizards_games(G) == SelectSeq(G.nodes, LAMBDA node : node.team = "Wizards")

\* mutant: every hop counts
calculate_travel_efficiency_hops(trip) ==
  IF Len(trip) <= 1 THEN 0 ELSE Len(trip) - 1

RECURSIVE count_jumps(_, _, _)
\* the loop over range(1, len(trip)), i being the 1-based index of trip[i]
count_jumps(trip, i, jumps) ==
  IF i > Len(trip) \/ jumps < 0 THEN jumps
  ELSE count_jumps(trip, i + 1,
         IF geo_order[trip[i - 1].team] # geo_order[trip[i].team]
           THEN jumps + 1 ELSE jumps)

calculate_travel_efficiency(trip) ==
  IF Len(trip) <= 1 THEN 0 ELSE count_jumps(trip, 2, 0)

(***************************************************************************)
(* Trip ranker                                                             *)
(***************************************************************************)
\* tuple((node.team, node.date) for node in trip)
trip_key(trip) == [i \in 1..Len(trip) |-> <<trip[i].team, trip[i].date>>]

\* mutant: of the trips with one key the last is kept
unique_trips_last(trips) ==
  LET tagged == [i \in 1..Len(trips) |-> <<i, trips[i]>>]
      kept == SelectSeq(tagged,
                LAMBDA p : \A j \in (p[1] + 1)..Len(trips) :
                             trip_key(trips[j]) # trip_key(p[2]))
  IN  [i \in 1..Len(kept) |-> kept[i][2]]

\* mutant: a trip is only compared with the trip right before it
unique_trips_adjacent(trips) ==
  LET tagged == [i \in 1..Len(trips) |-> <<i, trips[i]>>]
      kept == SelectSeq(tagged,
                LAMBDA p : p[1] = 1 \/ trip_key(p[2]) # trip_key(trips[p[1] - 1]))
  IN  [i \in 1..Len(kept) |-> kept[i][2]]

\* the deduplication loop: trip i is kept when its key is not among the keys
\* seen so far, which are the keys of the trips before it
unique_trips(trips) ==
  LET tagged == [i \in 1..Len(trips) |-> <<i, trips[i]>>]
      kept == SelectSeq(tagged,
                LAMBDA p : trip_key(p[2]) \notin {trip_key(trips[j]) : j \in 1..(p[1] - 1)})
  IN  [i \in 1..Len(kept) |-> kept[i][2]]

RECURSIVE sort_by_efficiency_ties_reversed(_, _)
\* mutant: trips of equal score come out in reverse order
sort_by_efficiency_ties_reversed(group, s) ==
  IF \A i \in 1..Len(group) : calculate_travel_efficiency(group[i]) < s
    THEN <<>>
    ELSE LET same == SelectSeq(group, LAMBDA trip : calculate_travel_efficiency(trip) = s)
         IN  [i \in 1..Len(same) |-> same[Len(same) + 1 - i]]
             \o sort_by_efficiency_ties_reversed(group, s + 1)

\* mutant: the groups are left unsorted
sort_by_efficiency_none(group, s) == group

RECURSIVE sort_by_efficiency(_, _)
\* list.sort(key=calculate_travel_efficiency): ascending and stable; the
\* trips of score s in their given order, then those of the higher scores
sort_by_efficiency(group, s) ==
  IF \A i \in 1..Len(group) : calculate_travel_efficiency(group[i]) < s
    THEN <<>>
    ELSE SelectSeq(group, LAMBDA trip : calculate_travel_efficiency(trip) = s)
         \o sort_by_efficiency(group, s + 1)

\* mutant: every length from 3 to 5 gets a list
rank_trips_all_lengths(trips) ==
  IF trips = <<>> THEN <<>>
  ELSE LET unique == unique_trips(trips)
       IN  [length \in 3..5 |->
              sort_by_efficiency(SelectSeq(unique, LAMBDA trip : Len(trip) = length), 0)]

\* the mapping from length to the sorted trips of that length; the empty
\* mapping for an empty list
rank_trips(trips) ==
  IF trips = <<>> THEN <<>>
  ELSE LET unique == unique_trips(trips)
           lengths == {Len(unique[i]) : i \in 1..Len(unique)}
       IN  [length \in lengths |->
              sort_by_efficiency(SelectSeq(unique, LAMBDA trip : Len(trip) = length), 0)]

(***************************************************************************)
(* Inputs                                                                  *)
(***************************************************************************)
\* a cleaned schedule row, as load_and_clean_csv hands it to the builder
Row(team, date) == GameNode(team, date, "Visitor", arena_of(team), city_group_of(team))

\* one home game per night on nights 1..n
Windows(n) == {[k \in 1..n |-> Row(f[k], k)] : f \in [1..n -> Teams]}

\* any rows in any order: same-night games, gaps, repeated rows
FreeFrames(n) == [1..n -> {Row(t, d) : t \in Teams, d \in 1..MaxDay}]

\* one home game per night on nights 1..n and, as the last row, a second game
\* on one of these nights (the shape of the fixture below)
DoubleHeaders(n) ==
  {Append([k \in 1..n |-> Row(f[k], k)], Row(t, d)) :
     f \in [1..n -> Teams], t \in Teams, d \in 1..n}

\* the fixture of graph_builder_test.py: five nights south to north and a
\* second New York game on the fourth night
sample_df ==
  <<GameNode("Wizards", 1, "Celtics", "Capital One Arena", "Wizards"),
    GameNode("76ers", 2, "Wizards", "Wells Fargo Center", "76ers"),
    GameNode("Knicks", 3, "76ers", "Madison Square Garden (IV)", "NYC"),
    GameNode("Nets", 4, "Knicks", "Barclays Center", "NYC"),
    GameNode("Celtics", 5, "Nets", "TD Garden", "Celtics"),
    GameNode("Knicks", 4, "Celtics", "Madison Square Garden (IV)", "NYC")>>

\* the same fixture with the nights reversed
mirror_df == [k \in 1..Len(sample_df) |-> [sample_df[k] EXCEPT !.date = 6 - @]]

\* the frames of n rows handed to the graph builder
CleanedFrames(n) ==
  (IF n <= MaxNights THEN Windows(n) ELSE {})
    \cup (IF n <= MaxGames THEN FreeFrames(n) ELSE {})
    \cup (IF n >= 2 /\ n <= MaxDoubleNights + 1 THEN DoubleHeaders(n - 1) ELSE {})
    \cup {df \in {sample_df, mirror_df} : Len(df) = n}

(***************************************************************************)
(* Report                                                                  *)
(***************************************************************************)
RECURSIVE sum_lengths(_, _)
\* sum(len(trips) for trips in ranked_trips.values())
sum_lengths(ranked, keys) ==
  IF keys = {} THEN 0
  ELSE LET k == CHOOSE x \in keys : TRUE
       IN  Len(ranked[k]) + sum_lengths(ranked, keys \ {k})

\* ranked_trips.get(length, [])
get_trips(ranked, length) == IF length \in DOMAIN ranked THEN ranked[length] ELSE <<>>

\* mutant: the direction is read off the first hop
trip_direction_first_hop(trip) ==
  LET first_order == geo_order[trip[1].team]
      last_order == geo_order[trip[2].team]
  IN  IF first_order < last_order THEN "NORTHBOUND"
      ELSE IF first_order > last_order THEN "SOUTHBOUND"
      ELSE "LOCAL"

\* the Direction line of a trip
trip_direction(trip) ==
  LET first_order == geo_order[trip[1].team]
      last_order == geo_order[trip[Len(trip)].team]
  IN  IF first_order < last_order THEN "NORTHBOUND"
      ELSE IF first_order > last_order THEN "SOUTHBOUND"
      ELSE "LOCAL"

\* the header line of one length, the Direction lines of its trips and the
\* note written when it has no trips
header(ranked, length) ==
  [length |-> length,
   found |-> Len(get_trips(ranked, length)),
   directions |-> [i \in 1..Len(get_trips(ranked, length)) |->
                     trip_direction(get_trips(ranked, length)[i])],
   no_trips_note |-> (get_trips(ranked, length) = <<>>)]

\* mutant: only the lengths held by the mapping get a header
format_output_present_only(ranked) ==
  [total |-> sum_lengths(ranked, DOMAIN ranked),
   headers |-> SelectSeq(<<header(ranked, 5), header(ranked, 4), header(ranked, 3)>>,
                         LAMBDA h : h.length \in DOMAIN ranked)]

\* the total line and the headers of the loop over [5, 4, 3]
format_output(ranked) ==
  [total |-> sum_lengths(ranked, DOMAIN ranked),
   headers |-> <<header(ranked, 5), header(ranked, 4), header(ranked, 3)>>]

\* a game with a given visitor
Game(team, date, opponent) ==
  GameNode(team, date, opponent, arena_of(team), city_group_of(team))

\* trips handed to the ranker: two with the same (team, date) sequence and
\* different visitors, equal and different scores, three lengths
TripPool ==
  {<<Game("Wizards", 1, "Hawks"), Game("76ers", 2, "Hawks"), Game("Celtics", 3, "Hawks")>>,
   <<Game("Wizards", 1, "Bulls"), Game("76ers", 2, "Hawks"), Game("Celtics", 3, "Hawks")>>,
   <<Game("Knicks", 1, "Hawks"), Game("Nets", 2, "Hawks"), Game("Wizards", 3, "Hawks")>>,
   <<Game("Celtics", 1, "Hawks"), Game("76ers", 2, "Hawks"), Game("Wizards", 3, "Hawks")>>,
   <<Game("Celtics", 1, "Hawks"), Game("Nets", 2, "Hawks"), Game("76ers", 3, "Hawks"),
     Game("Wizards", 4, "Hawks")>>,
   <<Game("Celtics", 1, "Hawks"), Game("Knicks", 2, "Hawks"), Game("Nets", 3, "Hawks"),
     Game("Wizards", 4, "Hawks")>>,
   <<Game("Celtics", 1, "Hawks"), Game("Nets", 2, "Hawks"), Game("Knicks", 3, "Hawks"),
     Game("76ers", 4, "Hawks"), Game("Wizards", 5, "Hawks")>>}

TripLists(n) == [1..n -> TripPool]

\* the reorderings of a list
Reorderings(trips) ==
  {[i \in 1..Len(trips) |-> trips[f[i]]] :
     f \in {g \in [1..Len(trips) -> 1..Len(trips)] :
              \A i, j \in 1..Len(trips) : i # j => g[i] # g[j]}}

NoNode == GameNode("", 0, "", "", "")

\* no report written yet
NoOutput == [total |-> 0, headers |-> <<>>]

\* nodes for the transition rule: any team with any city_group tag
RuleNodes ==
  UNION {{GameNode(t, d, "Visitor", arena_of(t), g) :
            d \in 1..2, g \in {"NYC", t, "None"}} : t \in Teams}

(***************************************************************************)
(* The pipeline of main(): build, search                                   *)
(***************************************************************************)
Init ==
  /\ pc = "load"
  /\ cleaned_df = <<>>
  /\ graph = EmptyGraph
  /\ anchor_i = 0
  /\ all_trips = <<>>
  /\ ranked_trips = <<>>
  /\ from_node = NoNode
  /\ to_node = NoNode
  /\ rule_north = FALSE
  /\ rule_south = FALSE
  /\ northbound_trips = <<>>
  /\ southbound_trips = <<>>
  /\ output = NoOutput
  /\ other_trips = <<>>
  /\ ranked_other = <<>>
  /\ score_trip = <<>>
  /\ score = 0
  /\ procs = <<>>

rule_vars == <<from_node, to_node, rule_north, rule_south>>

\* the second list of the ranker comparison, the scored trip and the
\* searches run step by step
aux_vars == <<other_trips, ranked_other, score_trip, score, procs>>

\* graph = build_game_graph(df)
BuildGameGraph ==
  /\ pc = "load"
  /\ \E n \in 0..(MaxNights + Len(sample_df)) : \E df \in CleanedFrames(n) :
       /\ cleaned_df' = df
       /\ graph' = build_game_graph(df)
  /\ pc' = "north"
  /\ anchor_i' = 1
  /\ UNCHANGED <<all_trips, ranked_trips, northbound_trips, southbound_trips, output,
                 rule_vars, aux_vars>>

\* find_all_valid_trips, loop body, first half: the forward search of one anchor
SearchNorthbound ==
  /\ pc = "north"
  /\ anchor_i <= Len(wizards_games(graph))
  /\ northbound_trips' = find_northbound_trips(graph, wizards_games(graph)[anchor_i])
  /\ all_trips' = all_trips \o northbound_trips'
  /\ pc' = "south"
  /\ UNCHANGED <<cleaned_df, graph, anchor_i, ranked_trips, southbound_trips, output,
                 rule_vars, aux_vars>>

\* mutant: a backward trip already in the list is not added again
SearchSouthbound_new_only ==
  /\ pc = "south"
  /\ southbound_trips' = find_southbound_trips(graph, wizards_games(graph)[anchor_i])
  /\ all_trips' = all_trips \o SelectSeq(southbound_trips',
                                LAMBDA t : \A i \in 1..Len(all_trips) : all_trips[i] # t)
  /\ anchor_i' = anchor_i + 1
  /\ pc' = "north"
  /\ UNCHANGED <<cleaned_df, graph, ranked_trips, northbound_trips, output,
                 rule_vars, aux_vars>>

\* find_all_valid_trips, loop body, second half: the backward search
SearchSouthbound ==
  /\ pc = "south"
  /\ southbound_trips' = find_southbound_trips(graph, wizards_games(graph)[anchor_i])
  /\ all_trips' = all_trips \o southbound_trips'
  /\ anchor_i' = anchor_i + 1
  /\ pc' = "north"
  /\ UNCHANGED <<cleaned_df, graph, ranked_trips, northbound_trips, output,
                 rule_vars, aux_vars>>

\* find_all_valid_trips returns all_trips
ReturnTrips ==
  /\ pc = "north"
  /\ anchor_i > Len(wizards_games(graph))
  /\ pc' = "found"
  /\ UNCHANGED <<cleaned_df, graph, anchor_i, all_trips, ranked_trips,
                 northbound_trips, southbound_trips, output, rule_vars, aux_vars>>

\* ranked_trips = rank_trips(trips)
RankTrips ==
  /\ pc = "found"
  /\ ranked_trips' = rank_trips(all_trips)
  /\ pc' = "ranked"
  /\ UNCHANGED <<cleaned_df, graph, anchor_i, all_trips,
                 northbound_trips, southbound_trips, output, rule_vars, aux_vars>>

\* output = format_output(ranked_trips)
FormatOutput ==
  /\ pc = "ranked"
  /\ output' = format_output(ranked_trips)
  /\ pc' = "formatted"
  /\ UNCHANGED <<cleaned_df, graph, anchor_i, all_trips, ranked_trips,
                 northbound_trips, southbound_trips, rule_vars, aux_vars>>

Next ==
  \/ BuildGameGraph \/ SearchNorthbound \/ SearchSouthbound \/ ReturnTrips
  \/ RankTrips \/ FormatOutput

Spec == Init /\ [][Next]_vars

(***************************************************************************)
(* The pipeline on a frame that was not filtered to the five teams         *)
(***************************************************************************)
\* a home team outside target_teams; its city_group is its own name
ForeignTeam == "Lakers"

ForeignRow(date) ==
  GameNode(ForeignTeam, date, "Visitor", "Crypto.com Arena", city_group_of(ForeignTeam))

\* one home game per night on nights 1..n, at least one of the foreign team
UnfilteredFrames(n) ==
  {[k \in 1..n |-> IF f[k] = ForeignTeam THEN ForeignRow(k) ELSE Row(f[k], k)] :
     f \in {g \in [1..n -> Teams \cup {ForeignTeam}] : \E k \in 1..n : g[k] = ForeignTeam}}

\* graph = build_game_graph(df) on such a frame
BuildUnfilteredGraph ==
  /\ pc = "load"
  /\ \E n \in 1..MaxNights : \E df \in UnfilteredFrames(n) :
       /\ cleaned_df' = df
       /\ graph' = build_game_graph(df)
  /\ pc' = "north"
  /\ anchor_i' = 1
  /\ UNCHANGED <<all_trips, ranked_trips, northbound_trips, southbound_trips, output,
                 rule_vars, aux_vars>>

NextContract ==
  BuildUnfilteredGraph \/ SearchNorthbound \/ SearchSouthbound \/ ReturnTrips \/ RankTrips

SpecContract == Init /\ [][NextContract]_vars

(***************************************************************************)
(* The searches step by step.  A search call (find_northbound_trips or     *)
(* find_southbound_trips for one anchor) is a record                       *)
(*   [direction, starts, next_start, stack, heap, trips, returned]:        *)
(* heap holds the list objects the call has created, stack the frames of   *)
(* dfs_* as [node, teams, path, k], path and the entries of trips being    *)
(* positions in heap, k the position of the for loop over the successors.  *)
(***************************************************************************)
\* mutant: the path list is extended in place
list_concat_in_place(heap, ref, node) ==
  [heap |-> [heap EXCEPT ![ref] = Append(@, node)], ref |-> ref]

\* path + [current_node]: a new list object
list_concat(heap, ref, node) ==
  [heap |-> Append(heap, Append(heap[ref], node)), ref |-> Len(heap) + 1]

\* mutant: the last successor is never looked at
more_neighbors_but_last(succ, k) == k < Len(succ)

\* the for loop over graph.successors(current_node) has a next element
more_neighbors(succ, k) == k <= Len(succ)

\* the nodes a search call starts dfs_* from, in order
search_starts(G, direction, wizards_game) ==
  IF direction = "northbound"
    THEN <<wizards_game>>
    ELSE SelectSeq(G.nodes, LAMBDA start_node : start_node.team # "Wizards")

\* a search call before its first step: trips = []
new_search(G, direction, wizards_game) ==
  [direction |-> direction,
   starts |-> search_starts(G, direction, wizards_game),
   next_start |-> 1,
   stack |-> <<>>,
   heap |-> <<>>,
   trips |-> <<>>,
   returned |-> FALSE]

RECURSIVE search_calls(_, _)
\* the calls made by the loop of find_all_valid_trips, anchors k onwards
search_calls(G, k) ==
  IF k > Len(wizards_games(G)) THEN <<>>
  ELSE <<new_search(G, "northbound", wizards_games(G)[k]),
         new_search(G, "southbound", wizards_games(G)[k])>>
       \o search_calls(G, k + 1)

\* the first lines of dfs_*(current_node, visited_teams, path): the new path
\* and team set, the record, and the frame with its loop not yet begun
call_dfs(proc, current_node, visited_teams, path) ==
  LET c == list_concat(proc.heap, path, current_node)
      current_path == c.heap[c.ref]
      current_teams == visited_teams \cup {current_node.team}
      records == IF proc.direction = "northbound"
                   THEN north_records(current_path, current_teams)
                   ELSE south_records(current_node, current_path)
  IN  [proc EXCEPT
         !.heap = c.heap,
         !.trips = IF records THEN Append(@, c.ref) ELSE @,
         !.stack = Append(@, [node |-> current_node, teams |-> current_teams,
                              path |-> c.ref, k |-> 1])]

\* the lists a search call holds in trips
trips_of(proc) == [i \in 1..Len(proc.trips) |-> proc.heap[proc.trips[i]]]

\* the frames of n rows searched step by step
DfsFrames(n) ==
  (IF n <= MaxDfsNights THEN Windows(n) ELSE {})
    \cup (IF n >= 2 /\ n <= MaxDoubleNights + 1 THEN DoubleHeaders(n - 1) ELSE {})
    \cup {df \in {sample_df, mirror_df} : Len(df) = n}

\* a schedule with a backward and a forward trip at one anchor
round_trip_df ==
  <<Row("Celtics", 1), Row("76ers", 2), Row("Wizards", 3), Row("76ers", 4),
    Row("Celtics", 5)>>

\* the frames of n rows searched by interleaved calls
ParFrames(n) ==
  (IF n <= MaxParNights THEN Windows(n) ELSE {})
    \cup {df \in {sample_df, mirror_df, round_trip_df} : Len(df) = n}

\* find_all_valid_trips is entered with the graph of a frame
InitSearches(df) ==
  /\ pc = "search"
  /\ cleaned_df = df
  /\ graph = build_game_graph(df)
  /\ procs = search_calls(build_game_graph(df), 1)
  /\ anchor_i = 0
  /\ all_trips = <<>>
  /\ ranked_trips = <<>>
  /\ from_node = NoNode
  /\ to_node = NoNode
  /\ rule_north = FALSE
  /\ rule_south = FALSE
  /\ northbound_trips = <<>>
  /\ southbound_trips = <<>>
  /\ output = NoOutput
  /\ other_trips = <<>>
  /\ ranked_other = <<>>
  /\ score_trip = <<>>
  /\ score = 0

search_frame == <<cleaned_df, graph, anchor_i, ranked_trips, northbound_trips,
                  southbound_trips, output, rule_vars, other_trips, ranked_other,
                  score_trip, score>>

\* dfs_*(start, set(), []) for the next start node of call p
StartDfs(p) ==
  /\ pc = "search"
  /\ ~procs[p].returned
  /\ procs[p].stack = <<>>
  /\ procs[p].next_start <= Len(procs[p].starts)
  /\ LET proc == [procs[p] EXCEPT !.heap = Append(@, <<>>), !.next_start = @ + 1]
     IN  procs' = [procs EXCEPT ![p] =
                     call_dfs(proc, procs[p].starts[procs[p].next_start], {},
                              Len(proc.heap))]
  /\ UNCHANGED <<pc, all_trips, search_frame>>

\* one turn of the for loop of the innermost frame of call p
VisitNeighbor(p) ==
  /\ pc = "search"
  /\ procs[p].stack # <<>>
  /\ LET top == Len(procs[p].stack)
         frame == procs[p].stack[top]
         succ == successors(graph, frame.node)
     IN  /\ under_max_length(procs[p].heap[frame.path])
         /\ more_neighbors(succ, frame.k)
         /\ LET proc == [procs[p] EXCEPT !.stack[top].k = @ + 1]
            IN  procs' = [procs EXCEPT ![p] =
                  IF follows(graph, frame.node, succ[frame.k], frame.teams,
                             procs[p].direction)
                    THEN call_dfs(proc, succ[frame.k], frame.teams, frame.path)
                    ELSE proc]
  /\ UNCHANGED <<pc, all_trips, search_frame>>

\* the innermost frame of call p has nothing left to do and returns
ReturnDfs(p) ==
  /\ pc = "search"
  /\ procs[p].stack # <<>>
  /\ LET top == Len(procs[p].stack)
         frame == procs[p].stack[top]
         succ == successors(graph, frame.node)
     IN  /\ ~(under_max_length(procs[p].heap[frame.path]) /\ more_neighbors(succ, frame.k))
         /\ procs' = [procs EXCEPT ![p].stack = SubSeq(@, 1, top - 1)]
  /\ UNCHANGED <<pc, all_trips, search_frame>>

\* call p returns its trips and all_trips.extend takes them
ReturnSearch(p) ==
  /\ pc = "search"
  /\ ~procs[p].returned
  /\ procs[p].stack = <<>>
  /\ procs[p].next_start > Len(procs[p].starts)
  /\ procs' = [procs EXCEPT ![p].returned = TRUE]
  /\ all_trips' = all_trips \o trips_of(procs[p])
  /\ UNCHANGED <<pc, search_frame>>

\* return all_trips
FinishSearches ==
  /\ pc = "search"
  /\ \A p \in DOMAIN procs : procs[p].returned
  /\ pc' = "found"
  /\ UNCHANGED <<procs, all_trips, search_frame>>

\* the loop of find_all_valid_trips: a call begins when those before it
\* have returned
InitDfs ==
  \E n \in 0..(MaxNights + Len(sample_df)) : \E df \in DfsFrames(n) : InitSearches(df)

in_turn(p) == \A q \in 1..(p - 1) : procs[q].returned

NextDfs ==
  \/ \E p \in DOMAIN procs : in_turn(p) /\ StartDfs(p)
  \/ \E p \in DOMAIN procs : in_turn(p) /\ VisitNeighbor(p)
  \/ \E p \in DOMAIN procs : in_turn(p) /\ ReturnDfs(p)
  \/ \E p \in DOMAIN procs : in_turn(p) /\ ReturnSearch(p)
  \/ FinishSearches
  \/ RankTrips

SpecDfs == InitDfs /\ [][NextDfs]_vars

FairSpecDfs == SpecDfs /\ WF_vars(NextDfs)

\* the calls as separate processes, steps in any order
InitPar ==
  \E n \in 0..(MaxNights + Len(sample_df)) : \E df \in ParFrames(n) : InitSearches(df)

NextPar ==
  \/ \E p \in DOMAIN procs : StartDfs(p)
  \/ \E p \in DOMAIN procs : VisitNeighbor(p)
  \/ \E p \in DOMAIN procs : ReturnDfs(p)
  \/ \E p \in DOMAIN procs : ReturnSearch(p)
  \/ FinishSearches

SpecPar == InitPar /\ [][NextPar]_vars

(***************************************************************************)
(* The ranker on its own: a list and a reordering of it                    *)
(***************************************************************************)
InitRank ==
  /\ pc = "found"
  /\ cleaned_df = <<>>
  /\ graph = EmptyGraph
  /\ anchor_i = 0
  /\ \E n \in 0..MaxTrips : all_trips \in TripLists(n)
  /\ other_trips \in Reorderings(all_trips)
  /\ ranked_trips = <<>>
  /\ ranked_other = <<>>
  /\ from_node = NoNode
  /\ to_node = NoNode
  /\ rule_north = FALSE
  /\ rule_south = FALSE
  /\ northbound_trips = <<>>
  /\ southbound_trips = <<>>
  /\ output = NoOutput
  /\ score_trip = <<>>
  /\ score = 0
  /\ procs = <<>>

\* rank_trips called on the reordered list
RankOther ==
  /\ pc = "ranked"
  /\ ranked_other' = rank_trips(other_trips)
  /\ pc' = "reranked"
  /\ UNCHANGED <<cleaned_df, graph, anchor_i, all_trips, ranked_trips, northbound_trips,
                 southbound_trips, output, rule_vars, other_trips, score_trip, score, procs>>

NextRank == RankTrips \/ RankOther

SpecRank == InitRank /\ [][NextRank]_vars

(***************************************************************************)
(* The report on its own: any mapping from lengths 3, 4, 5 to trip lists   *)
(***************************************************************************)
\* the lists of up to MaxBucket trips of one length
Buckets(length) ==
  UNION {[1..n -> {t \in TripPool : Len(t) = length}] : n \in 0..MaxBucket}

\* a length is absent from the mapping or maps to a list, possibly empty
BucketChoices(length) ==
  {[present |-> TRUE, trips |-> b] : b \in Buckets(length)}
    \cup {[present |-> FALSE, trips |-> <<>>]}

\* the mapping of three such choices
RankedMapping(c3, c4, c5) ==
  LET c == [k \in {3, 4, 5} |-> IF k = 3 THEN c3 ELSE IF k = 4 THEN c4 ELSE c5]
  IN  [length \in {k \in {3, 4, 5} : c[k].present} |-> c[length].trips]

InitFormat ==
  /\ pc = "ranked"
  /\ \E c3 \in BucketChoices(3), c4 \in BucketChoices(4), c5 \in BucketChoices(5) :
       ranked_trips = RankedMapping(c3, c4, c5)
  /\ output = NoOutput
  /\ cleaned_df = <<>>
  /\ graph = EmptyGraph
  /\ anchor_i = 0
  /\ all_trips = <<>>
  /\ other_trips = <<>>
  /\ ranked_other = <<>>
  /\ from_node = NoNode
  /\ to_node = NoNode
  /\ rule_north = FALSE
  /\ rule_south = FALSE
  /\ northbound_trips = <<>>
  /\ southbound_trips = <<>>
  /\ score_trip = <<>>
  /\ score = 0
  /\ procs = <<>>

NextFormat == FormatOutput

SpecFormat == InitFormat /\ [][NextFormat]_vars

(***************************************************************************)
(* The efficiency score on its own                                         *)
(***************************************************************************)
\* lists of n games on consecutive nights, any teams
ScoreTrips(n) == {[i \in 1..n |-> Game(f[i], i, "Hawks")] : f \in [1..n -> Teams]}

InitScore ==
  /\ pc = "score"
  /\ \E n \in 0..MaxNights : score_trip \in ScoreTrips(n)
  /\ score = 0
  /\ procs = <<>>
  /\ cleaned_df = <<>>
  /\ graph = EmptyGraph
  /\ anchor_i = 0
  /\ all_trips = <<>>
  /\ other_trips = <<>>
  /\ ranked_trips = <<>>
  /\ ranked_other = <<>>
  /\ from_node = NoNode
  /\ to_node = NoNode
  /\ rule_north = FALSE
  /\ rule_south = FALSE
  /\ northbound_trips = <<>>
  /\ southbound_trips = <<>>
  /\ output = NoOutput

CalculateTravelEfficiency ==
  /\ pc = "score"
  /\ score' = calculate_travel_efficiency(score_trip)
  /\ pc' = "scored"
  /\ UNCHANGED <<cleaned_df, graph, anchor_i, all_trips, ranked_trips, northbound_trips,
                 southbound_trips, output, rule_vars, other_trips, ranked_other, score_trip,
                 procs>>

NextScore == CalculateTravelEfficiency

SpecScore == InitScore /\ [][NextScore]_vars

(***************************************************************************)
(* The transition rule on its own                                          *)
(***************************************************************************)
InitRule ==
  /\ pc = "rule"
  /\ cleaned_df = <<>>
  /\ graph = EmptyGraph
  /\ anchor_i = 0
  /\ all_trips = <<>>
  /\ ranked_trips = <<>>
  /\ from_node \in RuleNodes
  /\ to_node \in RuleNodes
  /\ rule_north = FALSE
  /\ rule_south = FALSE
  /\ northbound_trips = <<>>
  /\ southbound_trips = <<>>
  /\ output = NoOutput
  /\ other_trips = <<>>
  /\ ranked_other = <<>>
  /\ score_trip = <<>>
  /\ score = 0
  /\ procs = <<>>

ApplyRule ==
  /\ pc = "rule"
  /\ rule_north' = is_valid_geographic_transition(from_node, to_node, "northbound")
  /\ rule_south' = is_valid_geographic_transition(from_node, to_node, "southbound")
  /\ pc' = "ruled"
  /\ UNCHANGED <<cleaned_df, graph, anchor_i, all_trips, ranked_trips, from_node, to_node,
                 northbound_trips, southbound_trips, output, aux_vars>>

NextRule == ApplyRule

SpecRule == InitRule /\ [][NextRule]_vars

(***************************************************************************)
(* Properties                                                              *)
(***************************************************************************)
Returned == pc \in {"found", "ranked"}

\* the trips of the ranker's output
RankedSet ==
  UNION {{ranked_trips[length][i] : i \in 1..Len(ranked_trips[length])} :
           length \in DOMAIN ranked_trips}

TripSet == {all_trips[i] : i \in 1..Len(all_trips)}

TeamSeq(trip) == [i \in 1..Len(trip) |-> trip[i].team]

RankSeq(trip) == [i \in 1..Len(trip) |-> geo_order[trip[i].team]]

EdgeSet == {graph.edges[k] : k \in 1..Len(graph.edges)}

NodeSet == {graph.nodes[k] : k \in 1..Len(graph.nodes)}

HasEdge(a, b, d) ==
  \E e \in EdgeSet : NodeEq(e.from, a) /\ NodeEq(e.to, b) /\ e.direction = d

\* C1: every trip returned by find_all_valid_trips has between 3 and 5 nodes.
C1_TripLength ==
  Returned => \A trip \in TripSet : 3 <= Len(trip) /\ Len(trip) <= 5

C1_Witness ==
  /\ Returned
  /\ \E trip \in TripSet : Len(trip) = 3
  /\ \E trip \in TripSet : Len(trip) = 5

\* C2: the teams along every returned trip are pairwise distinct.
C2_DistinctTeams ==
  Returned =>
    \A trip \in TripSet :
      \A i, j \in 1..Len(trip) : i # j => trip[i].team # trip[j].team

\* the graph holds a southbound-labelled walk of four games that ends at a
\* Wizards game and visits one team twice, and the search has not returned it
C2_Witness ==
  /\ Returned
  /\ \E a, b, c, d \in NodeSet :
       /\ HasEdge(a, b, "southbound")
       /\ HasEdge(b, c, "southbound")
       /\ HasEdge(c, d, "southbound")
       /\ d.team = "Wizards"
       /\ a.team = c.team
       /\ <<a, b, c, d>> \notin TripSet
       /\ <<b, c, d>> \in TripSet

\* C3: every trip returned by find_all_valid_trips, and every trip of
\* rank_trips' output for it, contains a game of the anchor team, the Wizards.
C3_AnchorPresent ==
  Returned =>
    \A trip \in TripSet \cup RankedSet : \E i \in 1..Len(trip) : trip[i].team = "Wizards"

C3_Witness ==
  /\ pc = "ranked"
  /\ \E trip \in RankedSet : trip[1].team = "Wizards"
  /\ \E trip \in RankedSet : trip[Len(trip)].team = "Wizards"

\* C4: in every returned trip each game is exactly one day after the game before it.
C4_ConsecutiveNights ==
  Returned =>
    \A trip \in TripSet :
      \A i \in 1..(Len(trip) - 1) : trip[i + 1].date - trip[i].date = 1

\* a trip is returned from a schedule that also has games two nights apart
C4_Witness ==
  /\ Returned
  /\ TripSet # {}
  /\ \E a, b \in NodeSet : b.date - a.date = 2 /\ a.team # b.team

\* C5: the geographic ranks along every returned trip are non-decreasing
\* throughout or non-increasing throughout, and two adjacent games have equal
\* rank only when they are a Knicks/Nets hop.
C5_OneDirection ==
  Returned =>
    \A trip \in TripSet :
      LET r == RankSeq(trip)
      IN  /\ \/ \A i \in 1..(Len(r) - 1) : r[i] <= r[i + 1]
             \/ \A i \in 1..(Len(r) - 1) : r[i] >= r[i + 1]
          /\ \A i \in 1..(Len(r) - 1) :
               r[i] = r[i + 1] => {trip[i].team, trip[i + 1].team} = {"Knicks", "Nets"}

C5_Witness ==
  /\ Returned
  /\ \E trip \in TripSet : RankSeq(trip) = <<1, 2, 4>>
  /\ \E trip \in TripSet : RankSeq(trip) = <<3, 3, 1>>

\* the co-located case of the transition rule
CoLocated(a, b) == a.city_group = "NYC" /\ b.city_group = "NYC" /\ a.team # b.team

\* .get(team, []) on an adjacency table
Adjacent(table, team) == IF team \in DOMAIN table THEN table[team] ELSE {}

\* C6: is_valid_geographic_transition is true for 'northbound' and for
\* 'southbound' whenever both nodes carry city_group NYC and their teams differ.
C6_CoLocatedBothWays ==
  (pc = "ruled" /\ CoLocated(from_node, to_node)) => (rule_north /\ rule_south)

C6_Witness ==
  /\ pc = "ruled"
  /\ from_node.team = "Nets"
  /\ to_node.team = "Knicks"
  /\ CoLocated(from_node, to_node)
  /\ rule_north
  /\ rule_south

\* C7: outside the co-located case the rule is true northbound exactly when the
\* target's rank is greater, true southbound exactly when it is less, never
\* both, and the NORTHBOUND and SOUTHBOUND rows of the source team are the
\* teams of greater and of lesser rank.
C7_RankDerived ==
  (pc = "ruled" /\ ~CoLocated(from_node, to_node)) =>
    LET rf == geo_order[from_node.team]
        rt == geo_order[to_node.team]
    IN  /\ rule_north <=> (rt > rf)
        /\ rule_south <=> (rt < rf)
        /\ ~(rule_north /\ rule_south)
        /\ Adjacent(NORTHBOUND, from_node.team) = {t \in Teams : geo_order[t] > rf}
        /\ Adjacent(SOUTHBOUND, from_node.team) = {t \in Teams : geo_order[t] < rf}

\* Knicks to Nets without the NYC tag on one of them: neither direction is valid
C7_Witness ==
  /\ pc = "ruled"
  /\ from_node.team = "Knicks"
  /\ to_node.team = "Nets"
  /\ from_node.city_group = "NYC"
  /\ to_node.city_group = "Nets"
  /\ ~rule_north
  /\ ~rule_south

\* C8: an edge a -> b of a built graph has b one day after a and different
\* teams; so no self-loop, no edge between games of one night, none between
\* games of one team.
C8_EdgesConsecutiveDistinct ==
  \A e \in EdgeSet :
    /\ e.to.date - e.from.date = 1
    /\ e.from.team # e.to.team
    /\ ~NodeEq(e.from, e.to)

\* a built graph with an edge, a Knicks and a Nets game on one night, and two
\* games of one team on consecutive nights
C8_Witness ==
  /\ pc = "north"
  /\ EdgeSet # {}
  /\ \E a, b \in NodeSet : a.team = "Knicks" /\ b.team = "Nets" /\ a.date = b.date
  /\ \E a, b \in NodeSet : a.team = b.team /\ b.date - a.date = 1

\* C9: for every ordered pair of consecutive-night games of the two co-located
\* teams the built graph holds a northbound-labelled and a southbound-labelled
\* edge.
C9_CoLocatedBothLabels ==
  pc # "load" =>
    \A a, b \in NodeSet :
      ({a.team, b.team} = {"Knicks", "Nets"} /\ b.date - a.date = 1) =>
        (HasEdge(a, b, "northbound") /\ HasEdge(a, b, "southbound"))

\* C10: the five-night fixture yields the forward trip Wizards, 76ers, Knicks,
\* Nets, Celtics with score 3, and the mirrored fixture the backward trip
\* Celtics, Nets, Knicks, 76ers, Wizards with score 3.
C10_FiveNightScenario ==
  Returned =>
    /\ cleaned_df = sample_df =>
         \E trip \in TripSet :
           /\ TeamSeq(trip) = <<"Wizards", "76ers", "Knicks", "Nets", "Celtics">>
           /\ calculate_travel_efficiency(trip) = 3
    /\ cleaned_df = mirror_df =>
         \E trip \in TripSet :
           /\ TeamSeq(trip) = <<"Celtics", "Nets", "Knicks", "76ers", "Wizards">>
           /\ calculate_travel_efficiency(trip) = 3

\* the paths of the graph with one more game: an edge labelled d from the last
\* game to a game of a team not yet on the path
Extend(P, d) ==
  UNION {{Append(p, v) : v \in {n \in NodeSet :
                                  /\ HasEdge(p[Len(p)], n, d)
                                  /\ \A i \in 1..Len(p) : p[i].team # n.team}} : p \in P}

\* the paths of 3 to 5 games that start in S, follow edges labelled d and
\* repeat no team
LabelledPaths(S, d) ==
  LET P1 == {<<n>> : n \in S}
      P2 == Extend(P1, d)
      P3 == Extend(P2, d)
      P4 == Extend(P3, d)
      P5 == Extend(P4, d)
  IN  P3 \cup P4 \cup P5

SeqSet(seq) == {seq[i] : i \in 1..Len(seq)}

\* C11: find_northbound_trips(graph, w) returns exactly the paths of 3 to 5
\* games that start at w, follow northbound-labelled edges and repeat no team,
\* each of them once.
C11_ForwardExact ==
  pc = "south" =>
    /\ SeqSet(northbound_trips)
         = LabelledPaths({wizards_games(graph)[anchor_i]}, "northbound")
    /\ Cardinality(SeqSet(northbound_trips)) = Len(northbound_trips)

\* a recorded trip of three games is recorded again extended to four games
C11_Witness ==
  /\ pc = "south"
  /\ \E t3, t4 \in SeqSet(northbound_trips) :
       /\ Len(t3) = 3 /\ Len(t4) = 4
       /\ SubSeq(t4, 1, 3) = t3

\* C12: the backward search records exactly the paths of 3 to 5 games that
\* start at a non-Wizards game, follow southbound-labelled edges, repeat no
\* team and end at a Wizards game.
C12_BackwardExact ==
  (pc \in {"north", "found", "ranked"} /\ anchor_i > 1) =>
    SeqSet(southbound_trips)
      = {p \in LabelledPaths({n \in NodeSet : n.team # "Wizards"}, "southbound") :
           p[Len(p)].team = "Wizards"}

\* a backward trip is recorded while a southbound path of three games that
\* ends at another team is not
C12_Witness ==
  /\ pc = "north"
  /\ anchor_i > 1
  /\ southbound_trips # <<>>
  /\ \E p \in LabelledPaths({n \in NodeSet : n.team # "Wizards"}, "southbound") :
       p[Len(p)].team # "Wizards"

\* positions <<length, i>> of the ranker's output
RankedPositions(ranked) ==
  UNION {{<<length, i>> : i \in 1..Len(ranked[length])} : length \in DOMAIN ranked}

\* the first trip of a list with a given (team, date) sequence
FirstWithKey(trips, key) ==
  trips[CHOOSE j \in 1..Len(trips) :
          /\ trip_key(trips[j]) = key
          /\ \A h \in 1..(j - 1) : trip_key(trips[h]) # key]

ScoreSeq(group) == [i \in 1..Len(group) |-> calculate_travel_efficiency(group[i])]

\* C13: the ranker's output holds, for every (team, date) sequence of its
\* input, exactly one trip, and that trip is the first of the input with the
\* sequence.
C13_DedupFirstSeen ==
  pc \in {"ranked", "reranked"} =>
    /\ \A key \in {trip_key(t) : t \in TripSet} :
         \E p \in RankedPositions(ranked_trips) :
           /\ ranked_trips[p[1]][p[2]] = FirstWithKey(all_trips, key)
           /\ \A q \in RankedPositions(ranked_trips) :
                trip_key(ranked_trips[q[1]][q[2]]) = key => q = p
    /\ RankedSet \subseteq TripSet

\* two trips of the input have the same (team, date) sequence and differ in a
\* visitor, the later of them comes first in the input, and one is kept
C13_Witness ==
  /\ pc = "ranked"
  /\ \E i, j \in 1..Len(all_trips) :
       /\ i < j
       /\ all_trips[i] # all_trips[j]
       /\ trip_key(all_trips[i]) = trip_key(all_trips[j])
       /\ all_trips[i][1].opponent = "Bulls"
       /\ all_trips[i] \in RankedSet
       /\ all_trips[j] \notin RankedSet

\* C14: within every length group of the ranker's output the scores are
\* non-decreasing in list order.
C14_ScoresAscending ==
  pc \in {"ranked", "reranked"} =>
    \A length \in DOMAIN ranked_trips :
      \A i \in 1..(Len(ranked_trips[length]) - 1) :
        calculate_travel_efficiency(ranked_trips[length][i])
          <= calculate_travel_efficiency(ranked_trips[length][i + 1])

\* the input has a trip of higher score before one of lower score and equal length
C14_Witness ==
  /\ pc = "ranked"
  /\ \E i, j \in 1..Len(all_trips) :
       /\ i < j
       /\ Len(all_trips[i]) = Len(all_trips[j])
       /\ calculate_travel_efficiency(all_trips[i]) > calculate_travel_efficiency(all_trips[j])

\* C15 as stated: the ranker returns the same mapping, the same trips in the
\* same order, for a list and for any reordering of it.
C15_OrderIndependent ==
  pc = "reranked" => ranked_other = ranked_trips

\* C15 amended: for a list and any reordering of it the ranker returns
\* mappings with the same lengths and, for each length, the same set of
\* (team, date) sequences and the same sequence of scores.
C15_SameUpToTies ==
  pc = "reranked" =>
    /\ DOMAIN ranked_other = DOMAIN ranked_trips
    /\ \A length \in DOMAIN ranked_trips :
         /\ {trip_key(t) : t \in SeqSet(ranked_other[length])}
              = {trip_key(t) : t \in SeqSet(ranked_trips[length])}
         /\ ScoreSeq(ranked_other[length]) = ScoreSeq(ranked_trips[length])

\* the two lists differ and so do the two outputs
C15_Witness ==
  /\ pc = "reranked"
  /\ other_trips # all_trips
  /\ ranked_other # ranked_trips

\* C16: every key of the ranker's output is the node count of every trip in
\* its list, no list is empty, a length without trips is no key, and the keys
\* of the output for the trips of the search are among 3, 4, 5.
C16_KeysAreLengths ==
  pc = "ranked" =>
    /\ \A length \in DOMAIN ranked_trips :
         /\ ranked_trips[length] # <<>>
         /\ \A i \in 1..Len(ranked_trips[length]) : Len(ranked_trips[length][i]) = length
         /\ length \in {3, 4, 5}
    /\ \A length \in 3..5 :
         length \in DOMAIN ranked_trips <=> \E t \in TripSet : Len(t) = length

\* trips of three and four games are ranked and none of five
C16_Witness ==
  /\ pc = "ranked"
  /\ DOMAIN ranked_trips = {3, 4}

\* the adjacent pairs of a trip whose teams differ in geographic rank
RankChanges(trip) ==
  {i \in 1..(Len(trip) - 1) : geo_order[trip[i].team] # geo_order[trip[i + 1].team]}

C18_TotalOnEmpty ==
  /\ (pc # "load" /\ cleaned_df = <<>>) => (graph.nodes = <<>> /\ graph.edges = <<>>)
  /\ (pc = "north" /\ \A n \in NodeSet : n.team # "Wizards") => ENABLED ReturnTrips
  /\ (Returned /\ \A n \in NodeSet : n.team # "Wizards") => all_trips = <<>>
  /\ (pc = "found" /\ all_trips = <<>>) => ENABLED RankTrips
  /\ (pc = "ranked" /\ all_trips = <<>>) => DOMAIN ranked_trips = {}

\* the pipeline has run to its end on the empty record sequence
C18_Witness ==
  /\ pc = "ranked"
  /\ cleaned_df = <<>>
  /\ NodeSet = {}
  /\ all_trips = <<>>
  /\ DOMAIN ranked_trips = {}

\* C19: graph construction and search do not complete with a game of a team
\* outside the five in the graph.
C19_ForeignTeamRejected ==
  Returned => \A n \in NodeSet : n.team \in Teams

\* the number of trips a mapping holds for a length
BucketSize(ranked, length) ==
  IF length \in DOMAIN ranked THEN Len(ranked[length]) ELSE 0

\* C20: the report has three headers, for 5, 4 and 3 nights in this order;
\* the count of each is the size of the bucket of that length, 0 when the
\* length is absent or maps to the empty list; the total is the sum of the
\* bucket sizes.
C20_ReportAllBuckets ==
  pc = "formatted" =>
    /\ Len(output.headers) = 3
    /\ <<output.headers[1].length, output.headers[2].length, output.headers[3].length>>
         = <<5, 4, 3>>
    /\ \A i \in 1..3 :
         output.headers[i].found = BucketSize(ranked_trips, output.headers[i].length)
    /\ output.total = BucketSize(ranked_trips, 5) + BucketSize(ranked_trips, 4)
                        + BucketSize(ranked_trips, 3)

\* no key 5, key 4 mapped to the empty list, two trips of three games
C20_Witness ==
  /\ pc = "formatted"
  /\ DOMAIN ranked_trips = {3, 4}
  /\ ranked_trips[4] = <<>>
  /\ Len(ranked_trips[3]) = 2
  /\ output.total = 2
  /\ output.headers[1].found = 0
  /\ output.headers[2].found = 0
  /\ output.headers[3].found = 2

RECURSIVE CandidatesOfAnchors(_, _)
\* forward then backward candidates of anchors 1..k, in anchor order
CandidatesOfAnchors(G, k) ==
  IF k = 0 THEN <<>>
  ELSE CandidatesOfAnchors(G, k - 1)
         \o find_northbound_trips(G, wizards_games(G)[k])
         \o find_southbound_trips(G, wizards_games(G)[k])

\* the number of positions of a list that hold x
Occurrences(seq, x) == Cardinality({i \in 1..Len(seq) : seq[i] = x})

\* C21: the raw list is, for the anchors in graph node order, the forward
\* candidates of the anchor followed by its backward candidates, concatenated
\* with nothing removed: a path produced for several anchors is held as often.
C21_RawConcatenation ==
  /\ pc = "north" => all_trips = CandidatesOfAnchors(graph, anchor_i - 1)
  /\ pc = "south" =>
       all_trips = CandidatesOfAnchors(graph, anchor_i - 1) \o northbound_trips
  /\ Returned => all_trips = CandidatesOfAnchors(graph, Len(wizards_games(graph)))

\* two anchors, and a path held twice by the returned list
C21_Witness ==
  /\ pc = "found"
  /\ Len(wizards_games(graph)) = 2
  /\ \E i, j \in 1..Len(all_trips) : i < j /\ all_trips[i] = all_trips[j]
  /\ \E i \in 1..Len(all_trips) : all_trips[i][1].team = "Wizards"

\* the first position of a trip with the (team, date) sequence of t
FirstOccurrence(trips, t) ==
  CHOOSE j \in 1..Len(trips) :
    /\ trip_key(trips[j]) = trip_key(t)
    /\ \A h \in 1..(j - 1) : trip_key(trips[h]) # trip_key(t)

\* C22: two trips of one length group of the ranker's output with equal
\* scores stand in the order of their first occurrences in the input.
C22_TiesKeepInputOrder ==
  pc \in {"ranked", "reranked"} =>
    \A length \in DOMAIN ranked_trips :
      \A i, j \in 1..Len(ranked_trips[length]) :
        (/\ i < j
         /\ calculate_travel_efficiency(ranked_trips[length][i])
              = calculate_travel_efficiency(ranked_trips[length][j]))
          => FirstOccurrence(all_trips, ranked_trips[length][i])
               < FirstOccurrence(all_trips, ranked_trips[length][j])

\* two trips of equal length and score behind a trip of lower score, kept in
\* their input order
C22_Witness ==
  /\ pc = "ranked"
  /\ Len(all_trips) = 3
  /\ Len(all_trips[1]) = 3 /\ Len(all_trips[2]) = 3 /\ Len(all_trips[3]) = 3
  /\ calculate_travel_efficiency(all_trips[1]) = 2
  /\ calculate_travel_efficiency(all_trips[2]) = 2
  /\ calculate_travel_efficiency(all_trips[3]) = 1
  /\ all_trips[1][1].team = "Celtics"
  /\ trip_key(all_trips[1]) # trip_key(all_trips[2])
  /\ ranked_trips[3] = <<all_trips[3], all_trips[1], all_trips[2]>>

\* the list a frame of a search call holds as its path
FramePath(proc, i) == proc.heap[proc.stack[i].path]

\* frames hold paths of at most 5 games without a repeated team, and a frame
\* that has called dfs_* again holds a path of fewer than 5 games
FramesBounded ==
  \A p \in DOMAIN procs :
    /\ Len(procs[p].stack) <= 5
    /\ \A i \in 1..Len(procs[p].stack) :
         LET path == FramePath(procs[p], i)
         IN  /\ Len(path) <= 5
             /\ i < Len(procs[p].stack) => Len(path) < 5
             /\ \A a, b \in 1..Len(path) : a # b => path[a].team # path[b].team

\* C23: no frame of either depth-first search ever holds a path of more than
\* 5 games, a frame is extended only while its path has fewer than 5 games
\* and only by a team not on the path, and find_all_valid_trips returns.
C23_SearchTerminates == []FramesBounded /\ <>(pc = "found")

\* a frame holds a path of 5 games
C23_Witness ==
  \E p \in DOMAIN procs : \E i \in 1..Len(procs[p].stack) :
    Len(FramePath(procs[p], i)) = 5

C30_InputsUnchanged ==
  [][/\ graph' = graph
     /\ \A p \in DOMAIN procs :
          /\ Len(procs'[p].trips) >= Len(procs[p].trips)
          /\ \A i \in 1..Len(procs[p].trips) :
               procs'[p].heap[procs'[p].trips[i]] = procs[p].heap[procs[p].trips[i]]
          /\ \A i \in 1..Len(procs[p].stack) :
               i <= Len(procs'[p].stack) =>
                 /\ procs'[p].stack[i].teams = procs[p].stack[i].teams
                 /\ procs'[p].heap[procs'[p].stack[i].path] = FramePath(procs[p], i)
     /\ Len(all_trips') >= Len(all_trips)
     /\ \A i \in 1..Len(all_trips) : all_trips'[i] = all_trips[i]
     /\ pc = "found" => all_trips' = all_trips]_vars

\* a recorded trip of three games while a frame holds its extension by a
\* fourth game
C30_Witness ==
  \E p \in DOMAIN procs :
    /\ procs[p].trips # <<>>
    /\ procs[p].stack # <<>>
    /\ LET trip == procs[p].heap[procs[p].trips[1]]
           path == FramePath(procs[p], Len(procs[p].stack))
       IN  Len(trip) = 3 /\ Len(path) = 4 /\ SubSeq(path, 1, 3) = trip

\* the nodes S and the nodes with a southbound-labelled edge into S
SouthStepInto(S) ==
  S \cup {e.from : e \in {f \in EdgeSet : f.direction = "southbound" /\ f.to \in S}}

\* the nodes from which some anchor-team node is reached by at most 4
\* southbound-labelled edges
AnchorReach ==
  SouthStepInto(SouthStepInto(SouthStepInto(SouthStepInto(
    {n \in NodeSet : n.team = "Wizards"}))))

ReachesAnchor(node) == node \in AnchorReach

RECURSIVE BackwardFrom(_, _)
\* the backward search run from the start nodes of a list, in order
BackwardFrom(G, starts) ==
  IF starts = <<>> THEN <<>>
  ELSE dfs_southbound(G, Head(starts), {}, <<>>) \o BackwardFrom(G, Tail(starts))

\* the backward search with its starts trimmed to those reaching an anchor
TrimmedBackward ==
  LET reach == AnchorReach
  IN  BackwardFrom(graph, SelectSeq(graph.nodes,
                            LAMBDA n : n.team # "Wizards" /\ n \in reach))

RECURSIVE TrimmedCandidates(_)
\* the raw list of the loop over anchors 1..k with the trimmed backward search
TrimmedCandidates(k) ==
  IF k = 0 THEN <<>>
  ELSE TrimmedCandidates(k - 1)
         \o find_northbound_trips(graph, wizards_games(graph)[k])
         \o TrimmedBackward

\* C25: starting the backward search only from the non-anchor nodes that
\* reach an anchor node by at most 4 southbound-labelled edges gives the list
\* of backward trips of the search from every non-anchor node, in the same
\* order, and the same ranking.
C25_TrimmedStartsSame ==
  /\ (pc = "north" /\ anchor_i > 1) => southbound_trips = TrimmedBackward
  /\ pc = "ranked" =>
       ranked_trips = rank_trips(TrimmedCandidates(Len(wizards_games(graph))))

\* backward trips were found and a start node that reaches no anchor was searched
C25_Witness ==
  /\ pc = "ranked"
  /\ southbound_trips # <<>>
  /\ \E n \in NodeSet :
       /\ n.team # "Wizards"
       /\ ~ReachesAnchor(n)
       /\ \E m \in NodeSet : HasEdge(n, m, "southbound")

\* C26: every trip of the forward search is classified NORTHBOUND, every trip
\* of the backward search SOUTHBOUND, and no trip of find_all_valid_trips,
\* and no Direction line of the report, is LOCAL.
C26_DirectionMatchesSearch ==
  /\ \A t \in SeqSet(northbound_trips) : trip_direction(t) = "NORTHBOUND"
  /\ \A t \in SeqSet(southbound_trips) : trip_direction(t) = "SOUTHBOUND"
  /\ \A t \in TripSet : trip_direction(t) # "LOCAL"
  /\ pc = "formatted" =>
       \A h \in 1..Len(output.headers) :
         \A i \in 1..Len(output.headers[h].directions) :
           output.headers[h].directions[i] \in {"NORTHBOUND", "SOUTHBOUND"}

\* the report holds a NORTHBOUND and a SOUTHBOUND trip, and a backward trip
\* begins with a hop between the two New York teams
C26_Witness ==
  /\ pc = "formatted"
  /\ \E h \in 1..3 : \E i, j \in 1..Len(output.headers[h].directions) :
       /\ output.headers[h].directions[i] = "NORTHBOUND"
       /\ output.headers[h].directions[j] = "SOUTHBOUND"
  /\ \E t \in SeqSet(southbound_trips) : geo_order[t[1].team] = geo_order[t[2].team]

AnchorGames(trip) == Cardinality({i \in 1..Len(trip) : trip[i].team = "Wizards"})

\* C28: every returned trip holds exactly one game of the anchor team, at an
\* end: a forward trip begins with the anchor node it was searched from, a
\* backward trip ends with an anchor-team node; no southbound-labelled edge
\* leaves an anchor-team node and no northbound-labelled edge enters one.
C28_AnchorAtAnEnd ==
  /\ pc = "south" =>
       \A t \in SeqSet(northbound_trips) : t[1] = wizards_games(graph)[anchor_i]
  /\ \A t \in SeqSet(southbound_trips) : t[Len(t)].team = "Wizards"
  /\ \A t \in TripSet \cup SeqSet(northbound_trips) \cup SeqSet(southbound_trips) :
       /\ AnchorGames(t) = 1
       /\ t[1].team = "Wizards" \/ t[Len(t)].team = "Wizards"
  /\ \A e \in EdgeSet :
       /\ e.from.team = "Wizards" => e.direction # "southbound"
       /\ e.to.team = "Wizards" => e.direction # "northbound"

\* the returned list holds a trip that begins and a trip that ends at an
\* anchor, and the graph has an edge out of and an edge into an anchor
C28_Witness ==
  /\ pc = "found"
  /\ \E t, u \in TripSet : t[1].team = "Wizards" /\ u[Len(u)].team = "Wizards"
  /\ \E e, f \in EdgeSet : e.from.team = "Wizards" /\ f.to.team = "Wizards"

====
